---- MODULE Spec2Model ----
(***************************************************************************)
(* Model of src/app.py: the fill-in-the-blank question formatter.          *)
(*                                                                         *)
(* A text is a sequence of characters; a character is a short ASCII name.  *)
(* ASCII characters are named by themselves ("A", ",", "(", " ").          *)
(* Other characters:                                                       *)
(*   "LF" newline, "TAB" tab, "FWSP" U+3000 ideographic space              *)
(*   "FW(" "FW)" full-width parentheses, "LB(" "LB)" lenticular brackets   *)
(*   "FW_" full-width low line, "FW," U+FF0C, "FW." U+FF0E, "FW:" U+FF1A   *)
(*   "FW?" U+FF1F, "TOUTEN" U+3001 ideographic comma,                      *)
(*   "KUTEN" U+3002 ideographic full stop, "NAKAGURO" U+30FB middle dot    *)
(*   "c1" .. "c20" the circled numbers U+2460 .. U+2473                    *)
(*   "h.xx" hiragana, "k.xx" katakana, "j.xx" kanji (romanised reading)    *)
(***************************************************************************)
EXTENDS Integers, Sequences, FiniteSets, TLC

(***************************************************************************)
(* Character classes                                                       *)
(***************************************************************************)
Upper == {"A","B","C","D","E","F","G","H","I","J","K","L","M",
          "N","O","P","Q","R","S","T","U","V","W","X","Y","Z"}
Lower == {"a","b","c","d","e","f","g","h","i","j","k","l","m",
          "n","o","p","q","r","s","t","u","v","w","x","y","z"}
Digit == {"0","1","2","3","4","5","6","7","8","9"}
Letter == Upper \cup Lower
\* Python's \s on str: ASCII whitespace and U+3000
Space == {" ", "TAB", "LF", "FWSP"}
Circled == {"c1","c2","c3","c4","c5","c6","c7","c8","c9","c10",
            "c11","c12","c13","c14","c15","c16","c17","c18","c19","c20"}
Hiragana == {"h.a","h.i","h.u","h.o","h.ka","h.ga","h.ki","h.ku","h.sa","h.shi",
             "h.su","h.se","h.ta","h.xtsu","h.te","h.de","h.to","h.do","h.na",
             "h.ni","h.no","h.ha","h.ma","h.ya","h.yo","h.xyo","h.ra","h.ri",
             "h.ru","h.re","h.ro","h.wo","h.n"}
Katakana == {"k.ri","k.n","k.pa","k.u","k.i","k.ru","k.su","k.ta","k.ku","k.do",
             "k.me","k.ra","k.sa","k.bu","NAKAGURO"}
Kanji == {"j.kata","j.gun","j.sai","j.bou","j.kou","j.gen","j.ju","j.you","j.tai",
          "j.kyuu","j.i","j.den","j.shi","j.tan","j.haku","j.in","j.sa","j.za",
          "j.ryou","j.iki","j.nami","j.sen","j.sou","j.obi","j.kan","j.ten",
          "j.men","j.jiku","j.hashi","j.ai","j.ki","j.some","j.iro","j.nani",
          "j.kare","j.hou","j.tame","j.sei","j.kai","j.motte","j.shita",
          "j.shirusu","j.noberu","j.kuu","j.ran","j.teki","j.setsu","j.go",
          "j.ku","j.nyuu","j.aka","j.ketsu"}
\* [\u3040-\u309F\u30A0-\u30FF\u4E00-\u9FFF]: U+30FB (NAKAGURO) lies in the katakana
\* block; U+3001 (TOUTEN) and U+3002 (KUTEN) lie in none of the three
jp_char == Hiragana \cup Katakana \cup Kanji

(***************************************************************************)
(* Searching and concatenating over a range of positions                   *)
(***************************************************************************)
\* x = v; F(x): a local variable of the code, assigned once and then read.
\* v is evaluated once, before F.
With(v, F(_)) == CHOOSE y \in {F(x) : x \in {v}} : TRUE

\* the least x in lo..hi with P[x]; 0 when there is none (positions start at 1)
RECURSIVE FirstIn(_, _, _)
FirstIn(lo, hi, P) ==
    IF lo > hi THEN 0 ELSE IF P[lo] THEN lo ELSE FirstIn(lo + 1, hi, P)

\* F[lo] \o F[lo + 1] \o ... \o F[hi]
RECURSIVE ConcatRange(_, _, _)
ConcatRange(lo, hi, F) ==
    IF lo > hi THEN <<>>
    ELSE IF lo = hi THEN F[lo]
    ELSE LET mid == (lo + hi) \div 2
         IN  ConcatRange(lo, mid, F) \o ConcatRange(mid + 1, hi, F)


(***************************************************************************)
(* Regular expressions: the constructs src/app.py uses, as data.           *)
(* Ends(re, s, i) is the sequence of end positions of the matches of re    *)
(* starting at position i of s, in the order a backtracking matcher tries  *)
(* them (greedy repetition: longest first; lazy repetition: shortest       *)
(* first; alternation: left to right).  Every repetition in src/app.py     *)
(* repeats a single-character class.                                       *)
(***************************************************************************)
Cls(S) == [t |-> "cls", set |-> S]
NCls(S) == [t |-> "ncls", set |-> S]
Lit(str) == [t |-> "lit", str |-> str]
Cat(rs) == [t |-> "cat", rs |-> rs]
Alt(rs) == [t |-> "alt", rs |-> rs]
Rep(r, min, lazy) == [t |-> "rep", r |-> r, min |-> min, lazy |-> lazy]
Look(r) == [t |-> "look", r |-> r]
Bol == [t |-> "bol"]
Eol == [t |-> "eol"]
Ch(c) == Cls({c})
Star(r) == Rep(r, 0, FALSE)
Plus(r) == Rep(r, 1, FALSE)
Opt(r) == Alt(<<r, Lit(<<>>)>>)
\* '.' matches any character except a newline
Dot == NCls({"LF"})

IsPrefixAt(str, s, i) ==
    /\ i + Len(str) - 1 <= Len(s)
    /\ \A k \in 1..Len(str) : s[i + k - 1] = str[k]

\* a single-character class r matches character c
CharOk(r, c) == IF r.t = "cls" THEN c \in r.set ELSE c \notin r.set

\* r{min,} (lazy: r{min,}?) at i: n is the length of the run of r at i
RunEnds(n, min, lazy, i) ==
    IF n < min THEN <<>>
    ELSE [k \in 1..(n - min + 1) |-> IF lazy THEN i + min + k - 1 ELSE i + n - k + 1]
EndsRep(r, min, lazy, s, i) ==
    With(FirstIn(i, Len(s) + 1,
                 [q \in i..Len(s) + 1 |-> q > Len(s) \/ ~CharOk(r, s[q])]) - i,
         LAMBDA n : RunEnds(n, min, lazy, i))

RECURSIVE Ends(_, _, _)
RECURSIVE EndsCat(_, _, _, _)

Ends(re, s, i) ==
    CASE re.t = "cls" -> IF i <= Len(s) /\ s[i] \in re.set THEN <<i + 1>> ELSE <<>>
      [] re.t = "ncls" -> IF i <= Len(s) /\ s[i] \notin re.set THEN <<i + 1>> ELSE <<>>
      [] re.t = "lit" -> IF IsPrefixAt(re.str, s, i) THEN <<i + Len(re.str)>> ELSE <<>>
      [] re.t = "cat" -> EndsCat(re.rs, 1, s, i)
      [] re.t = "alt" -> ConcatRange(1, Len(re.rs), [k \in 1..Len(re.rs) |-> Ends(re.rs[k], s, i)])
      [] re.t = "rep" -> EndsRep(re.r, re.min, re.lazy, s, i)
      [] re.t = "look" -> IF Ends(re.r, s, i) # <<>> THEN <<i>> ELSE <<>>
      [] re.t = "bol" -> IF i = 1 THEN <<i>> ELSE <<>>
      [] re.t = "eol" -> IF i = Len(s) + 1 \/ (i = Len(s) /\ s[i] = "LF")
                         THEN <<i>> ELSE <<>>

\* the ends of rs[k..] started at each end of rs[k], in order
EndsCat(rs, k, s, i) ==
    IF k > Len(rs) THEN <<i>>
    ELSE With(Ends(rs[k], s, i), LAMBDA e :
             ConcatRange(1, Len(e), [j \in 1..Len(e) |-> EndsCat(rs, k + 1, s, e[j])]))

(***************************************************************************)
(* A pattern is a sequence of parts (its top-level concatenation).  A      *)
(* match is the sequence <<b0, b1, ..., bn>> of the boundaries of the      *)
(* parts in the first successful path; <<>> when there is none.            *)
(***************************************************************************)
RECURSIVE MatchFrom(_, _, _, _)
RECURSIVE TryEnds(_, _, _, _, _)
\* the match of parts k.. of ptn at i: part k ends at the first of its ends
\* from which the rest matches
MatchFrom(ptn, k, s, i) ==
    IF k > Len(ptn) THEN <<i>>
    ELSE With(Ends(ptn[k], s, i), LAMBDA ends :
         With(TryEnds(ptn, k + 1, s, ends, 1),
              LAMBDA rest : IF rest = <<>> THEN <<>> ELSE <<i>> \o rest))
\* the match of parts k.. of ptn at the first of ends[x..] that has one
TryEnds(ptn, k, s, ends, x) ==
    IF x > Len(ends) THEN <<>>
    ELSE With(MatchFrom(ptn, k, s, ends[x]),
              LAMBDA rest : IF rest # <<>> THEN rest
                            ELSE TryEnds(ptn, k, s, ends, x + 1))

\* re.match: a match at the start of the text
ReMatch(ptn, s) == With(ptn, LAMBDA p : With(s, LAMBDA t : MatchFrom(p, 1, t, 1)))

\* the text of part g of match m (a capturing group when the part is one)
Group(s, m, g) == SubSeq(s, m[g], m[g + 1] - 1)
MatchEnd(m) == m[Len(m)]

\* re.findall / the scan of re.sub: the leftmost non-overlapping matches.
\* No pattern of src/app.py matches the empty string.
\* re.search from position p: the leftmost match at or after p
RECURSIVE SearchFrom(_, _, _)
SearchFrom(ptn, s, p) ==
    IF p > Len(s) THEN <<>>
    ELSE With(MatchFrom(ptn, 1, s, p),
              LAMBDA m : IF m # <<>> THEN m ELSE SearchFrom(ptn, s, p + 1))
RECURSIVE FindAllFrom(_, _, _)
FindAllFrom(ptn, s, p) ==
    With(SearchFrom(ptn, s, p),
         LAMBDA m : IF m = <<>> THEN <<>>
                    ELSE <<m>> \o FindAllFrom(ptn, s, MatchEnd(m)))
FindAll(ptn, s) == With(ptn, LAMBDA p : With(s, LAMBDA t : FindAllFrom(p, t, 1)))

\* re.sub(pattern, repl, s): Repl(s, m) is the replacement text of match m
\* the text between the end of match j - 1 and the start of match j (after
\* the last match when j = Len(ms) + 1)
Between(s, ms, j) ==
    SubSeq(s, IF j = 1 THEN 1 ELSE MatchEnd(ms[j - 1]),
              IF j = Len(ms) + 1 THEN Len(s) ELSE ms[j][1] - 1)
Stitch(s, ms, Repl(_, _)) ==
    ConcatRange(1, Len(ms), [j \in 1..Len(ms) |-> Between(s, ms, j) \o Repl(s, ms[j])])
    \o Between(s, ms, Len(ms) + 1)
ReSub(ptn, Repl(_, _), s) ==
    With(s, LAMBDA t : With(FindAll(ptn, t), LAMBDA ms : Stitch(t, ms, Repl)))

(***************************************************************************)
(* Literal texts of src/app.py                                             *)
(***************************************************************************)
\* '{{BLANK}}'
BLANK == <<"{", "{", "B", "L", "A", "N", "K", "}", "}">>
\* 'ABCDEFGHIJKLMNOPQRSTUVWXYZ'
labels == <<"A","B","C","D","E","F","G","H","I","J","K","L","M",
            "N","O","P","Q","R","S","T","U","V","W","X","Y","Z">>
lowers == <<"a","b","c","d","e","f","g","h","i","j","k","l","m",
            "n","o","p","q","r","s","t","u","v","w","x","y","z">>
circleds == <<"c1","c2","c3","c4","c5","c6","c7","c8","c9","c10",
              "c11","c12","c13","c14","c15","c16","c17","c18","c19","c20">>
IndexOf(seq, c) == CHOOSE k \in 1..Len(seq) : seq[k] = c
\* str.upper() on one character
upper(c) == IF c \in Lower THEN labels[IndexOf(lowers, c)] ELSE c

\* str.find(sub, p): the first occurrence of sub at or after p; 0 when none
find(s, sub, p) ==
    FirstIn(p, Len(s) - Len(sub) + 1,
            [x \in p..Len(s) - Len(sub) + 1 |-> IsPrefixAt(sub, s, x)])

\* the starts of the non-overlapping occurrences of sub in s, left to right
RECURSIVE Occurrences(_, _, _)
Occurrences(s, sub, p) ==
    With(find(s, sub, p), LAMBDA q :
         IF q = 0 THEN <<>> ELSE <<q>> \o Occurrences(s, sub, q + Len(sub)))

\* str.count(sub)
count(s, sub) == Len(Occurrences(s, sub, 1))

\* str.replace(old, new, 1)
replace1(s, old, new) ==
    With(find(s, old, 1), LAMBDA p :
         IF p = 0 THEN s
         ELSE SubSeq(s, 1, p - 1) \o new \o SubSeq(s, p + Len(old), Len(s)))

\* str.replace(old, new)
ReplaceAt(s, at, n, new) ==
    ConcatRange(1, Len(at), [j \in 1..Len(at) |->
        SubSeq(s, IF j = 1 THEN 1 ELSE at[j - 1] + n, at[j] - 1) \o new])
    \o SubSeq(s, IF at = <<>> THEN 1 ELSE at[Len(at)] + n, Len(s))
replace(s, old, new) ==
    With(s, LAMBDA t :
         With(Occurrences(t, old, 1), LAMBDA at : ReplaceAt(t, at, Len(old), new)))

\* str.lstrip() / str.rstrip(chars) / str.strip()
LeftStripped(s) ==
    With(FirstIn(1, Len(s), [x \in 1..Len(s) |-> s[x] \notin Space]),
         LAMBDA p : IF p = 0 THEN <<>> ELSE SubSeq(s, p, Len(s)))
lstrip(s) == With(s, LeftStripped)
RightStripped(s, chars) ==
    With(FirstIn(1, Len(s), [x \in 1..Len(s) |-> \A y \in x..Len(s) : s[y] \in chars]),
         LAMBDA p : IF p = 0 THEN s ELSE SubSeq(s, 1, p - 1))
rstrip(s, chars) == With(s, LAMBDA t : RightStripped(t, chars))
strip(s) == rstrip(lstrip(s), Space)

(***************************************************************************)
(* normalize_blanks, first half: BLANK_PATTERNS                            *)
(***************************************************************************)
ws == Star(Cls(Space))
BLANK_PATTERNS == <<
    <<Ch("FW("), ws, Ch("FW)")>>,
    <<Ch("("), ws, Ch(")")>>,
    <<Ch("LB("), ws, Ch("LB)")>>,
    <<Ch("["), ws, Ch("]")>>,
    <<Rep(Ch("_"), 2, FALSE)>>,
    <<Rep(Ch("FW_"), 2, FALSE)>>,
    <<Cls({"FW(", "("}), ws, Cls({"A", "B", "a", "b"}), ws, Cls({"FW)", ")"})>>,
    <<Ch("FW("), ws, Cls({"c1", "c2"}), ws, Ch("FW)")>>,
    <<Ch("("), ws, Cls({"c1", "c2"}), ws, Ch(")")>>,
    <<Ch("FW("), ws, Cls({"1", "2"}), ws, Ch("FW)")>>,
    <<Ch("("), ws, Cls({"1", "2"}), ws, Ch(")")>> >>

ToBlank(s, m) == BLANK

\* for pattern in BLANK_PATTERNS[lo..hi]:
\*     result = re.sub(pattern, '{{BLANK}}', result)
RECURSIVE ApplyBlankPatterns(_, _, _)
ApplyBlankPatterns(text, lo, hi) ==
    IF lo = hi THEN ReSub(BLANK_PATTERNS[lo], ToBlank, text)
    ELSE With(ApplyBlankPatterns(text, lo, (lo + hi) \div 2),
              LAMBDA r : ApplyBlankPatterns(r, (lo + hi) \div 2 + 1, hi))

(***************************************************************************)
(* normalize_standalone_letters                                            *)
(***************************************************************************)
exclude_suffixes == <<
    <<"j.kata">>, <<"j.gun">>, <<"j.sai", "j.bou">>, <<"j.kou", "j.gen">>,
    <<"j.ju", "j.you", "j.tai">>, <<"k.ri", "k.n", "k.pa", "j.kyuu">>,
    <<"k.u", "k.i", "k.ru", "k.su">>, <<"j.i", "j.den", "j.shi">>,
    <<"k.ta", "k.n", "k.pa", "k.ku">>, <<"j.tan", "j.haku">>, <<"j.in", "j.shi">>,
    <<"j.sa">>, <<"j.za">>, <<"j.ryou", "j.iki">>, <<"k.do", "k.me", "k.i", "k.n">>,
    <<"k.ku", "k.ra", "k.su">>, <<"k.sa", "k.bu">>, <<"j.nami">>, <<"j.sen">>,
    <<"j.sou">>, <<"j.obi">>, <<"j.kan">>, <<"j.ten">>, <<"j.men">>, <<"j.jiku">>,
    <<"j.hashi">>, <<"j.ai">>, <<"j.ki">>, <<"j.some", "j.iro", "j.tai">> >>
\* (細胞|リンパ球|抗原|受容体)
cell_suffixes == <<
    <<"j.sai", "j.bou">>, <<"k.ri", "k.n", "k.pa", "j.kyuu">>,
    <<"j.kou", "j.gen">>, <<"j.ju", "j.you", "j.tai">> >>
Lits(strs) == Alt([k \in 1..Len(strs) |-> Lit(strs[k])])

\* {'T', 'B', 'K', 'NK'}: a set, iterated in an order the run-time chooses
exclude_letters_before_cell == {<<"T">>, <<"B">>, <<"K">>, <<"N", "K">>}
IterationOrders ==
    {o \in [1..Cardinality(exclude_letters_before_cell) -> exclude_letters_before_cell] :
        \A a, b \in DOMAIN o : a # b => o[a] # o[b]}

PROTECT(letter) == <<"_", "_", "P", "R", "O", "T", "E", "C", "T", "_">> \o letter \o <<"_">>
TECH == <<"_", "_", "T", "E", "C", "H", "_">>

\* re.sub(f'{letter}(細胞|リンパ球|抗原|受容体)', f'__PROTECT_{letter}_\\1__', result)
ProtectLetter(text, letter) ==
    ReSub(<<Lit(letter), Lits(cell_suffixes)>>,
          LAMBDA s, m : PROTECT(letter) \o Group(s, m, 2) \o <<"_", "_">>, text)
\* for letter in exclude_letters_before_cell: ..., in the order `order`
RECURSIVE ProtectLetters(_, _, _)
ProtectLetters(text, order, k) ==
    IF k > Len(order) THEN text
    ELSE With(ProtectLetter(text, order[k]), LAMBDA r : ProtectLetters(r, order, k + 1))

\* tech_pattern = f'({jp_char})([A-Z])({exclude_suffixes})', replaced by
\* group 1 + '__TECH_' + group 2 + '__' + group 3
tech_pattern == <<Cls(jp_char), Cls(Upper), Lits(exclude_suffixes)>>
ProtectTech(text) ==
    ReSub(tech_pattern,
          LAMBDA s, m : Group(s, m, 1) \o TECH \o Group(s, m, 2) \o <<"_", "_">>
                        \o Group(s, m, 3), text)

\* a replacement that leaves the letter in place
replace_standalone_keep(s, m) == Group(s, m, 1) \o Group(s, m, 2) \o Group(s, m, 3)
before_chars == jp_char \cup {"TOUTEN", ",", "h.to", "h.ya", "NAKAGURO"}
after_chars == jp_char \cup {"TOUTEN", ",", "h.to", "h.ya", "NAKAGURO", "h.na", "h.do"}
replace_standalone(s, m) == Group(s, m, 1) \o BLANK \o Group(s, m, 3)
\* pattern = f'({before_chars})([A-Z])({after_chars})'
standalone_pattern == <<Cls(before_chars), Cls(Upper), Cls(after_chars)>>
\* one pass of the while loop: re.sub(pattern, replace_standalone, result)
ScanStandalone(text) == ReSub(standalone_pattern, replace_standalone, text)

\* re.sub(r'__TECH_([A-Z])__', r'\1', result)
RestoreTech(text) ==
    ReSub(<<Lit(TECH), Cls(Upper), Lit(<<"_", "_">>)>>, LAMBDA s, m : Group(s, m, 2), text)
\* re.sub(f'__PROTECT_{letter}_(.+?)__', f'{letter}\\1', result)
RestoreLetter(text, letter) ==
    ReSub(<<Lit(PROTECT(letter)), Rep(Dot, 1, TRUE), Lit(<<"_", "_">>)>>,
          LAMBDA s, m : letter \o Group(s, m, 2), text)
RECURSIVE RestoreLetters(_, _, _)
RestoreLetters(text, order, k) ==
    IF k > Len(order) THEN text
    ELSE With(RestoreLetter(text, order[k]), LAMBDA r : RestoreLetters(r, order, k + 1))
\* lines 123-129: the protected terms restored (the letter loop runs twice)
RestoreAll(text, order) ==
    With(RestoreTech(text), LAMBDA r1 :
    With(RestoreLetters(r1, order, 1), LAMBDA r2 : RestoreLetters(r2, order, 1)))

(***************************************************************************)
(* convert_desu_masu                                                       *)
(***************************************************************************)
ha_nanika == <<"h.ha", "h.na", "h.ni", "h.ka", "KUTEN">>
qend == Opt(Cls({"KUTEN", "FW?", "?"}))
QUESTION_END_PATTERNS == <<
    <<Lit(<<"h.ha", "j.nani", "h.de", "h.shi", "h.xyo", "h.u", "h.ka">>), qend>>,
    <<Lit(<<"h.ha", "j.nani", "h.de", "h.su", "h.ka">>), qend>>,
    <<Lit(<<"h.ha", "j.nani", "h.de", "h.a", "h.ro", "h.u", "h.ka">>), qend>>,
    <<Lit(<<"h.ha", "j.nani", "h.de", "h.a", "h.ru", "h.ka">>), qend>>,
    <<Lit(<<"h.ha", "j.nani", "h.ka">>), qend>>,
    <<Lit(<<"h.ha", "h.na", "h.n", "h.de", "h.shi", "h.xyo", "h.u", "h.ka">>), qend>>,
    <<Lit(<<"h.ha", "h.na", "h.n", "h.de", "h.su", "h.ka">>), qend>>,
    <<Lit(<<"h.ha", "h.na", "h.n", "h.de", "h.a", "h.ro", "h.u", "h.ka">>), qend>>,
    <<Lit(<<"h.ha", "h.na", "h.n", "h.de", "h.a", "h.ru", "h.ka">>), qend>>,
    <<Lit(<<"h.ha", "h.na", "h.n", "h.ka">>), qend>> >>
DESU_MASU_PATTERNS == <<
    <<<<"h.de", "h.shi", "h.xyo", "h.u", "h.ka">>, <<"h.de", "h.a", "h.ro", "h.u", "h.ka">>>>,
    <<<<"h.ma", "h.shi", "h.xyo", "h.u">>, <<"h.yo", "h.u">>>>,
    <<<<"h.ma", "h.se", "h.n">>, <<"h.na", "h.i">>>>,
    <<<<"h.ma", "h.shi", "h.ta">>, <<"h.ta">>>>,
    <<<<"h.te", "h.i", "h.ma", "h.su">>, <<"h.te", "h.i", "h.ru">>>>,
    <<<<"h.te", "h.ki", "h.ma", "h.su">>, <<"h.te", "h.ku", "h.ru">>>>,
    <<<<"h.te", "h.o", "h.ri", "h.ma", "h.su">>, <<"h.te", "h.i", "h.ru">>>>,
    <<<<"h.sa", "h.re", "h.te", "h.i", "h.ma", "h.su">>,
      <<"h.sa", "h.re", "h.te", "h.i", "h.ru">>>>,
    <<<<"h.na", "h.xtsu", "h.te", "h.i", "h.ma", "h.su">>,
      <<"h.na", "h.xtsu", "h.te", "h.i", "h.ru">>>>,
    <<<<"h.i", "h.ma", "h.su">>, <<"h.i", "h.ru">>>>,
    <<<<"h.a", "h.ri", "h.ma", "h.su">>, <<"h.a", "h.ru">>>>,
    <<<<"h.ki", "h.ma", "h.su">>, <<"h.ku", "h.ru">>>>,
    <<<<"h.shi", "h.ma", "h.su">>, <<"h.su", "h.ru">>>>,
    <<<<"h.de", "h.su", "h.ga">>, <<"h.de", "h.a", "h.ru", "h.ga">>>>,
    <<<<"h.de", "h.su", "h.no", "h.de">>, <<"h.de", "h.a", "h.ru", "h.no", "h.de">>>>,
    <<<<"h.de", "h.su", "h.ka", "h.ra">>, <<"h.de", "h.a", "h.ru", "h.ka", "h.ra">>>>,
    <<<<"h.de", "h.su">>, <<"h.de", "h.a", "h.ru">>>>,
    <<<<"h.ma", "h.su">>, <<"h.ru">>>> >>

\* for pattern, replacement in QUESTION_END_PATTERNS[lo..hi]: re.sub(...)
RECURSIVE ApplyQuestionEnds(_, _, _)
ApplyQuestionEnds(text, lo, hi) ==
    IF lo = hi THEN ReSub(QUESTION_END_PATTERNS[lo], LAMBDA s, m : ha_nanika, text)
    ELSE With(ApplyQuestionEnds(text, lo, (lo + hi) \div 2),
              LAMBDA r : ApplyQuestionEnds(r, (lo + hi) \div 2 + 1, hi))
\* for pattern, replacement in DESU_MASU_PATTERNS[lo..hi]: re.sub(...); the
\* patterns are literal texts
RECURSIVE ApplyDesuMasu(_, _, _)
ApplyDesuMasu(text, lo, hi) ==
    IF lo = hi THEN replace(text, DESU_MASU_PATTERNS[lo][1], DESU_MASU_PATTERNS[lo][2])
    ELSE With(ApplyDesuMasu(text, lo, (lo + hi) \div 2),
              LAMBDA r : ApplyDesuMasu(r, (lo + hi) \div 2 + 1, hi))
convert_desu_masu(text) ==
    With(ApplyQuestionEnds(text, 1, Len(QUESTION_END_PATTERNS)),
         LAMBDA r : ApplyDesuMasu(r, 1, Len(DESU_MASU_PATTERNS)))

(***************************************************************************)
(* clean_text                                                              *)
(***************************************************************************)
clean_bold(text) ==
    ReSub(<<Lit(<<"*", "*">>), Rep(Dot, 1, TRUE), Lit(<<"*", "*">>)>>,
          LAMBDA s, m : Group(s, m, 2), text)
clean_italic(text) ==
    ReSub(<<Ch("*"), Rep(Dot, 1, TRUE), Ch("*")>>, LAMBDA s, m : Group(s, m, 2), text)
\* r',。' r'、。' r',.' r',、': in the third the dot is unescaped: any character
\* but a newline
clean_commas(text) ==
    With(replace(text, <<",", "KUTEN">>, <<"KUTEN">>), LAMBDA r1 :
    With(replace(r1, <<"TOUTEN", "KUTEN">>, <<"KUTEN">>), LAMBDA r2 :
    With(ReSub(<<Ch(","), Dot>>, LAMBDA s, m : <<".">>, r2), LAMBDA r3 :
         replace(r3, <<",", "TOUTEN">>, <<"TOUTEN">>))))
clean_runs(text) ==
    With(ReSub(<<Plus(Cls({" ", "FWSP"}))>>, LAMBDA s, m : <<" ">>, text), LAMBDA r1 :
    With(ReSub(<<Plus(Cls({"TOUTEN", "FW,"}))>>, LAMBDA s, m : <<"TOUTEN">>, r1),
         LAMBDA r2 : ReSub(<<Plus(Cls({"KUTEN", "FW."}))>>, LAMBDA s, m : <<"KUTEN">>, r2)))
clean_lines(text) ==
    ReSub(<<Ch("LF"), ws, Ch("LF")>>, LAMBDA s, m : <<"LF">>, text)
clean_text(text) ==
    With(clean_bold(text), LAMBDA r1 :
    With(clean_italic(r1), LAMBDA r2 :
    With(clean_commas(r2), LAMBDA r3 :
    With(clean_runs(r3), LAMBDA r4 :
    With(strip(r4), LAMBDA r5 : clean_lines(r5))))))

(***************************************************************************)
(* format_blanks                                                           *)
(***************************************************************************)
\* '（　　　　　）'
UnlabeledBlank == <<"FW(", "FWSP", "FWSP", "FWSP", "FWSP", "FWSP", "FW)">>
\* f'（　　{labels[i]}　　）'
LabeledBlank(l) == <<"FW(", "FWSP", "FWSP", l, "FWSP", "FWSP", "FW)">>
\* for i in range(blank_count), from i on
RECURSIVE LabelBlanks(_, _, _)
LabelBlanks(text, i, n) ==
    IF i >= n THEN text
    ELSE With(IF i < Len(labels)
              THEN replace1(text, BLANK, LabeledBlank(labels[i + 1]))
              ELSE text,
              LAMBDA r : LabelBlanks(r, i + 1, n))
format_blanks(text, n) ==
    IF n = 0 THEN text
    ELSE IF n = 1 THEN replace(text, BLANK, UnlabeledBlank)
    ELSE LabelBlanks(text, 0, n)


(***************************************************************************)
(* format_answer                                                           *)
(***************************************************************************)
\* '正解：'
SEIKAI == <<"j.sei", "j.kai", "FW:">>
\* r'^正解[：:]\s*'
seikai_pattern == <<Bol, Lit(<<"j.sei", "j.kai">>), Cls({"FW:", ":"}), ws>>
strip_seikai(answer) == ReSub(seikai_pattern, LAMBDA s, m : <<>>, answer)

\* circled_to_alpha.get(c, 'A')
circled_to_alpha(c) == IF c \in Circled THEN labels[IndexOf(circleds, c)] ELSE "A"
\* num_to_alpha = {str(i): labels[i-1] for i in range(1, 27)}; 0 when num is no key
DigitValue(c) == IndexOf(<<"0","1","2","3","4","5","6","7","8","9">>, c) - 1
num_to_alpha_key(num) ==
    IF Len(num) = 1 /\ DigitValue(num[1]) >= 1 THEN DigitValue(num[1])
    ELSE IF Len(num) = 2 /\ DigitValue(num[1]) >= 1
            /\ 10 * DigitValue(num[1]) + DigitValue(num[2]) <= 26
         THEN 10 * DigitValue(num[1]) + DigitValue(num[2])
    ELSE 0

\* str.split('\n')
SplitAt(s, at) ==
    [k \in 1..Len(at) + 1 |->
        SubSeq(s, IF k = 1 THEN 1 ELSE at[k - 1] + 1,
                  IF k = Len(at) + 1 THEN Len(s) ELSE at[k] - 1)]
split_lines(s) ==
    With(s, LAMBDA t : With(Occurrences(t, <<"LF">>, 1), LAMBDA at : SplitAt(t, at)))

\* an element of parts: f'{label}. {value}'
Entry(label, value) == [label |-> label, value |-> value]
Render(e) == <<e.label, ".", " ">> \o e.value

seps_line == Cls({".", " ", "TAB", "LF", "FWSP", ":", "FW:"})
\* r'^([①-⑳])[.\s:：\t]*(.+)$'
line_circled == <<Bol, Cls(Circled), Star(seps_line), Plus(Dot), Eol>>
\* r'^([0-9]+)[.\s:：\t\)）]*(.+)$'
line_num == <<Bol, Plus(Cls(Digit)),
              Star(Cls({".", " ", "TAB", "LF", "FWSP", ":", "FW:", ")", "FW)"})),
              Plus(Dot), Eol>>
\* r'^([A-Za-z])[.\s:：\t]+(.+)$'
line_letter == <<Bol, Cls(Letter), Plus(seps_line), Plus(Dot), Eol>>

\* the body of `for line in lines` (lines 231-260): parts after one line
\* lines 242-245: num_to_alpha.get(num, labels[len(parts)] if ... else 'A')
num_label(parts, key) ==
    IF key # 0 THEN labels[key]
    ELSE IF Len(parts) < Len(labels) THEN labels[Len(parts) + 1] ELSE "A"
\* lines 234-260, given the stripped line and the three matches on it
parse_matched(parts, line, mc, mn, ml) ==
    IF mc # <<>>
    THEN Append(parts, Entry(circled_to_alpha(line[1]), strip(Group(line, mc, 4))))
    ELSE IF mn # <<>>
    THEN Append(parts, Entry(num_label(parts, num_to_alpha_key(Group(line, mn, 2))),
                             strip(Group(line, mn, 4))))
    ELSE IF ml # <<>>
    THEN Append(parts, Entry(upper(line[1]), strip(Group(line, ml, 4))))
    ELSE IF Len(parts) < Len(labels)
    THEN Append(parts, Entry(labels[Len(parts) + 1], line))
    ELSE parts
parse_stripped(parts, line) ==
    IF line = <<>> THEN parts
    ELSE parse_matched(parts, line, ReMatch(line_circled, line),
                       ReMatch(line_num, line), ReMatch(line_letter, line))
parse_line(parts, raw) == With(strip(raw), LAMBDA line : parse_stripped(parts, line))
RECURSIVE parse_lines(_, _, _)
parse_lines(parts, lines, k) ==
    IF k > Len(lines) THEN parts
    ELSE With(parse_line(parts, lines[k]), LAMBDA r : parse_lines(r, lines, k + 1))

seps_inline == Cls({".", "FW.", ":", "FW:", "TAB"})
\* r'([①-⑳])[.\s:：]*([^①-⑳]+?)(?=\s*[①-⑳]|$)'
pattern_circled == <<Cls(Circled), Star(seps_line), Rep(NCls(Circled), 1, TRUE),
                     Look(Alt(<<Cat(<<ws, Cls(Circled)>>), Eol>>))>>
\* pattern_comma without the `|$` of its lookahead
pattern_comma_no_end == <<Cls(Letter), Cls({".", "FW.", ":", "FW:", "TAB"}), Star(Cls(Space)),
                          Rep(Dot, 1, TRUE),
                          Look(Cat(<<Star(Cls(Space)), Cls({",", "TOUTEN"}), Star(Cls(Space)),
                                     Cls(Letter), Cls({".", "FW.", ":", "FW:", "TAB"})>>))>>
\* r'([A-Za-z])[.．:：\t]\s*(.+?)(?=\s*[,、]\s*[A-Za-z][.．:：\t]|$)'
pattern_comma == <<Cls(Letter), seps_inline, ws, Rep(Dot, 1, TRUE),
                   Look(Alt(<<Cat(<<ws, Cls({",", "TOUTEN"}), ws, Cls(Letter),
                                    seps_inline>>), Eol>>))>>
\* r'([A-Za-z])[.．:：\t]\s*([^A-Za-z]+?)(?=\s*[A-Za-z][.．:：\t]|$)'
pattern_space == <<Cls(Letter), seps_inline, ws, Rep(NCls(Letter), 1, TRUE),
                   Look(Alt(<<Cat(<<ws, Cls(Letter), seps_inline>>), Eol>>))>>

\* f'__BRACKET_{i}__'
Decimal(i) ==
    LET d == <<"0","1","2","3","4","5","6","7","8","9">>
    IN  IF i < 10 THEN <<d[i + 1]>> ELSE <<d[(i \div 10) + 1], d[(i % 10) + 1]>>
BRACKET(i) == <<"_", "_", "B", "R", "A", "C", "K", "E", "T", "_">> \o Decimal(i)
               \o <<"_", "_">>
\* re.sub(pattern, protect_brackets, text) with bracket_contents holding `held`:
\* the text, and bracket_contents afterwards
protect_matches(text, ms, held) ==
    [text |-> ConcatRange(1, Len(ms), [j \in 1..Len(ms) |->
                  Between(text, ms, j) \o BRACKET(Len(held) + j - 1)])
              \o Between(text, ms, Len(ms) + 1),
     bracket_contents |->
         held \o [j \in 1..Len(ms) |-> SubSeq(text, ms[j][1], MatchEnd(ms[j]) - 1)]]
protect_pass(ptn, text, held) ==
    With(FindAll(ptn, text), LAMBDA ms : protect_matches(text, ms, held))
\* lines 283-291: r'\([^)]*\)' then r'（[^）]*）'
protect_brackets(answer) ==
    With(protect_pass(<<Ch("("), Star(NCls({")"})), Ch(")")>>, answer, <<>>),
         LAMBDA p1 : protect_pass(<<Ch("FW("), Star(NCls({"FW)"})), Ch("FW)")>>,
                                  p1.text, p1.bracket_contents))
\* for i, content in enumerate(bracket_contents):
\*     restored = restored.replace(f'__BRACKET_{i}__', content)
RECURSIVE restore_brackets(_, _, _)
restore_brackets(value, bracket_contents, k) ==
    IF k > Len(bracket_contents) THEN value
    ELSE With(replace(value, BRACKET(k - 1), bracket_contents[k]),
              LAMBDA r : restore_brackets(r, bracket_contents, k + 1))

\* lines 266-271: parts of the matches of pattern_circled
parts_circled(answer, ms) ==
    [j \in 1..Len(ms) |->
        Entry(circled_to_alpha(Group(answer, ms[j], 1)[1]),
              rstrip(strip(Group(answer, ms[j], 3)), {",", "TOUTEN"}))]
\* lines 275-279: parts of the matches of pattern_comma
parts_comma(answer, ms) ==
    [j \in 1..Len(ms) |->
        Entry(upper(Group(answer, ms[j], 1)[1]),
              rstrip(strip(Group(answer, ms[j], 4)), {",", "TOUTEN"}))]
\* lines 297-306: parts of the matches of pattern_space on the protected text
parts_space(prot, ms) ==
    [j \in 1..Len(ms) |->
        Entry(upper(Group(prot.text, ms[j], 1)[1]),
              restore_brackets(strip(Group(prot.text, ms[j], 4)),
                               prot.bracket_contents, 1))]
\* lines 283-306: the strategy of pattern_space
parse_space(prot) ==
    With(FindAll(pattern_space, prot.text), LAMBDA matches :
         IF matches # <<>>
         THEN [strategy |-> "space", parts |-> parts_space(prot, matches)]
         ELSE [strategy |-> "none", parts |-> <<>>])
\* lines 262-306: the parts of a one-line answer and the strategy that found them
parse_single(answer) ==
    With(FindAll(pattern_circled, answer), LAMBDA matches_circled :
         IF matches_circled # <<>>
         THEN [strategy |-> "circled", parts |-> parts_circled(answer, matches_circled)]
         ELSE With(FindAll(pattern_comma, answer), LAMBDA matches :
                   IF matches # <<>>
                   THEN [strategy |-> "comma", parts |-> parts_comma(answer, matches)]
                   ELSE With(protect_brackets(answer), parse_space)))

\* '　　'.join(parts)
join(parts) ==
    ConcatRange(1, Len(parts), [j \in 1..Len(parts) |->
        (IF j = 1 THEN <<>> ELSE <<"FWSP", "FWSP">>) \o Render(parts[j])])

\* format_answer: the returned text, with the parts and the strategy behind it
\* lines 228-260 or 262-306, by the number of lines of the answer
parse_answer(answer, lines) ==
    IF Len(lines) >= 2
    THEN [strategy |-> "lines", parts |-> parse_lines(<<>>, lines, 1)]
    ELSE parse_single(answer)
\* lines 308-311: the joined parts, or the answer as it is
answer_of(answer, parsed) ==
    IF parsed.parts # <<>>
    THEN [text |-> SEIKAI \o join(parsed.parts), parts |-> parsed.parts,
          strategy |-> parsed.strategy]
    ELSE [text |-> SEIKAI \o answer, parts |-> <<>>, strategy |-> "none"]
format_answer(raw, n) ==
    IF n = 0
    THEN [text |-> SEIKAI \o strip(raw), parts |-> <<>>, strategy |-> "none"]
    ELSE With(strip_seikai(strip(raw)), LAMBDA answer :
              IF n = 1
              THEN [text |-> SEIKAI \o answer, parts |-> <<>>, strategy |-> "none"]
              ELSE With(split_lines(strip(answer)), LAMBDA lines :
                   With(parse_answer(answer, lines),
                        LAMBDA parsed : answer_of(answer, parsed))))

(***************************************************************************)
(* format_question as a state machine: one step per numbered step of the   *)
(* function, and one per pass of the loop of normalize_standalone_letters. *)
(***************************************************************************)
\* '以下の記述の空欄に適切な語句を記入せよ。\n'
instruction == <<"j.motte", "j.shita", "h.no", "j.shirusu", "j.noberu", "h.no", "j.kuu",
                 "j.ran", "h.ni", "j.teki", "j.setsu", "h.na", "j.go", "j.ku", "h.wo",
                 "j.shirusu", "j.nyuu", "h.se", "h.yo", "KUTEN", "LF">>
\* prev_result = None
None == <<"None">>

VARIABLES
    question_text,      \* format_question's arguments
    answer_text,
    pc,                 \* the step about to run
    result,             \* normalize_blanks / normalize_standalone_letters: result
    prev_result,
    blank_count,        \* format_question's locals
    converted,
    cleaned,
    formatted,
    formatted_answer,
    parts,              \* format_answer: parts, and the strategy that filled it
    strategy,
    run,                \* the caller: which call this is, and what the first returned
    first

vars == <<question_text, answer_text, pc, result, prev_result, blank_count, converted,
          cleaned, formatted, formatted_answer, parts, strategy, run, first>>

\* the concatenations of at most n pieces
RECURSIVE Concats(_, _)
Concats(pieces, n) ==
    IF n = 0 THEN {<<>>}
    ELSE LET shorter == Concats(pieces, n - 1)
         IN  shorter \cup {t \o q : t \in shorter, q \in pieces}

MaxQuestionPieces == 3
MaxResubmitPieces == 2
MaxLetterPieces == 3
MaxAnswerPieces == 4
MaxBlankCount == 2

QuestionPieces == {
    <<"FW(", "FWSP", "FW)">>, <<"_", "_">>, <<"(", "A", ")">>,
    <<"h.ha">>, <<",">>, <<"A">>, <<"TOUTEN">>, <<"*">>, <<" ">>, <<"KUTEN">> }
\* 'これは（　）です。' '彼は何でしょうか。'
QuestionSamples == {
    <<"h.ko", "h.re", "h.ha", "FW(", "FWSP", "FW)", "h.de", "h.su", "KUTEN">>,
    <<"j.kare", "h.ha", "j.nani", "h.de", "h.shi", "h.xyo", "h.u", "h.ka", "KUTEN">> }
Questions == Concats(QuestionPieces, MaxQuestionPieces) \cup QuestionSamples
ResubmitQuestions == Concats(QuestionPieces, MaxResubmitPieces) \cup QuestionSamples
\* 'A. 赤, B. 血'
SampleAnswer == <<"A", ".", " ", "j.aka", ",", " ", "B", ".", " ", "j.ketsu">>
\* '赤血球'
ResubmitAnswers == {SampleAnswer, <<"j.aka", "j.ketsu", "j.kyuu">>}

LetterPieces == {
    <<"h.ha">>, <<"A", "TOUTEN">>, <<"A">>, <<"B">>, <<"K">>, <<"N">>,
    <<"j.kata">>, <<"j.sai", "j.bou">>, <<",">> }
\* '彼はA、B、Cの方法を試した。'
Example1 == <<"j.kare", "h.ha", "A", "TOUTEN", "B", "TOUTEN", "C", "h.no", "j.hou",
              "j.hou", "h.wo", "j.tame", "h.shi", "h.ta", "KUTEN">>
LetterTexts == Concats(LetterPieces, MaxLetterPieces) \cup {Example1}

AnswerValue == <<"j.aka">>
AnswerPieces == {
    <<"A", ".">> \o AnswerValue, <<"B", ".">> \o AnswerValue,
    <<"1", ".">> \o AnswerValue, <<"2", ".">> \o AnswerValue,
    <<"c1">> \o AnswerValue, <<"c2">> \o AnswerValue, <<"b", ":">>,
    AnswerValue, <<" ">>, <<",">>, <<"LF">>, <<"(">>, <<")">> }
AnswerTexts == Concats(AnswerPieces, MaxAnswerPieces)

Idle ==
    /\ result = <<>> /\ prev_result = None /\ blank_count = 0
    /\ converted = <<>> /\ cleaned = <<>> /\ formatted = <<>>
    /\ formatted_answer = <<>> /\ parts = <<>> /\ strategy = "none"
    /\ run = 1 /\ first = <<>>

\* format_question(question_text, answer_text) is called
Init ==
    /\ question_text \in Questions
    /\ answer_text = SampleAnswer
    /\ pc = "normalize_blanks"
    /\ Idle

\* normalize_blanks, lines 135-139
ApplyPatterns ==
    /\ pc = "normalize_blanks"
    /\ result' = ApplyBlankPatterns(question_text, 1, Len(BLANK_PATTERNS))
    /\ pc' = "protect"
    /\ UNCHANGED <<question_text, answer_text, prev_result, blank_count, converted,
                   cleaned, formatted, formatted_answer, parts, strategy, run, first>>

\* normalize_standalone_letters, lines 78-98 and 116
ProtectTerms ==
    /\ pc = "protect"
    /\ \E order \in IterationOrders :
           result' = With(ProtectLetters(result, order, 1), ProtectTech)
    /\ prev_result' = None
    /\ pc' = "scan"
    /\ UNCHANGED <<question_text, answer_text, blank_count, converted, cleaned,
                   formatted, formatted_answer, parts, strategy, run, first>>

\* one pass of `while prev_result != result`, lines 117-120
ScanPass ==
    /\ pc = "scan"
    /\ prev_result # result
    /\ prev_result' = result
    /\ result' = ScanStandalone(result)
    /\ UNCHANGED <<question_text, answer_text, pc, blank_count, converted, cleaned,
                   formatted, formatted_answer, parts, strategy, run, first>>

\* the loop exits; lines 123-131
RestoreTerms ==
    /\ pc = "scan"
    /\ prev_result = result
    /\ \E order \in IterationOrders : result' = RestoreAll(result, order)
    /\ pc' = "count"
    /\ UNCHANGED <<question_text, answer_text, prev_result, blank_count, converted,
                   cleaned, formatted, formatted_answer, parts, strategy, run, first>>

\* format_question step 2, line 319
CountBlanks ==
    /\ pc = "count"
    /\ blank_count' = count(result, BLANK)
    /\ pc' = "convert"
    /\ UNCHANGED <<question_text, answer_text, result, prev_result, converted, cleaned,
                   formatted, formatted_answer, parts, strategy, run, first>>

\* step 3, line 322
ConvertDesuMasu ==
    /\ pc = "convert"
    /\ converted' = convert_desu_masu(result)
    /\ pc' = "clean"
    /\ UNCHANGED <<question_text, answer_text, result, prev_result, blank_count,
                   cleaned, formatted, formatted_answer, parts, strategy, run, first>>

\* step 4, line 325
CleanText ==
    /\ pc = "clean"
    /\ cleaned' = clean_text(converted)
    /\ pc' = "format"
    /\ UNCHANGED <<question_text, answer_text, result, prev_result, blank_count,
                   converted, formatted, formatted_answer, parts, strategy, run, first>>

\* steps 5 and 6, lines 328-333
FormatBlanks ==
    /\ pc = "format"
    /\ formatted' = (IF blank_count > 0 THEN instruction ELSE <<>>)
                     \o format_blanks(cleaned, blank_count)
    /\ pc' = "answer"
    /\ UNCHANGED <<question_text, answer_text, result, prev_result, blank_count,
                   converted, cleaned, formatted_answer, parts, strategy, run, first>>

\* step 7 and the return, lines 336-342
FormatAnswer ==
    /\ pc = "answer"
    /\ \E r \in {format_answer(answer_text, blank_count)} :
           /\ formatted_answer' = r.text
           /\ parts' = r.parts
           /\ strategy' = r.strategy
    /\ pc' = "done"
    /\ UNCHANGED <<question_text, answer_text, result, prev_result, blank_count,
                   converted, cleaned, formatted, run, first>>

Next ==
    \/ ApplyPatterns
    \/ ProtectTerms
    \/ ScanPass
    \/ RestoreTerms
    \/ CountBlanks
    \/ ConvertDesuMasu
    \/ CleanText
    \/ FormatBlanks
    \/ FormatAnswer

Spec == Init /\ [][Next]_vars

(***************************************************************************)
(* normalize_standalone_letters alone, on bounded texts                    *)
(***************************************************************************)
InitLetters ==
    /\ question_text \in LetterTexts
    /\ answer_text = <<>>
    /\ pc = "protect"
    /\ result = question_text /\ prev_result = None /\ blank_count = 0
    /\ converted = <<>> /\ cleaned = <<>> /\ formatted = <<>>
    /\ formatted_answer = <<>> /\ parts = <<>> /\ strategy = "none"
    /\ run = 1 /\ first = <<>>

NextLetters == ProtectTerms \/ ScanPass \/ RestoreTerms

\* the function runs to its return: nothing but its own steps can hold it up
LettersSpec == InitLetters /\ [][NextLetters]_vars /\ WF_vars(NextLetters)

(***************************************************************************)
(* format_answer alone, on bounded answers and blank counts                *)
(***************************************************************************)
InitAnswer ==
    /\ question_text = <<>>
    /\ answer_text \in AnswerTexts
    /\ pc = "answer"
    /\ result = <<>> /\ prev_result = None
    /\ blank_count \in 0..MaxBlankCount
    /\ converted = <<>> /\ cleaned = <<>> /\ formatted = <<>>
    /\ formatted_answer = <<>> /\ parts = <<>> /\ strategy = "none"
    /\ run = 1 /\ first = <<>>

NextAnswer == FormatAnswer

AnswerSpec == InitAnswer /\ [][NextAnswer]_vars

(***************************************************************************)
(* The caller submits what format_question returned to format_question     *)
(***************************************************************************)
Resubmit ==
    /\ pc = "done"
    /\ run = 1
    /\ first' = [question |-> formatted, answer |-> formatted_answer,
                 blank_count |-> blank_count]
    /\ question_text' = formatted
    /\ answer_text' = formatted_answer
    /\ run' = 2
    /\ pc' = "normalize_blanks"
    /\ UNCHANGED <<result, prev_result, blank_count, converted, cleaned, formatted,
                   formatted_answer, parts, strategy>>

InitTwice ==
    /\ question_text \in ResubmitQuestions
    /\ answer_text \in ResubmitAnswers
    /\ pc = "normalize_blanks"
    /\ Idle

NextTwice == Next \/ Resubmit

TwiceSpec == InitTwice /\ [][NextTwice]_vars

(***************************************************************************)
(* Properties                                                              *)
(***************************************************************************)
\* a labeled blank starts at position i of text
LabeledAt(text, i) ==
    /\ i + 6 <= Len(text)
    /\ text[i + 3] \in Upper
    /\ SubSeq(text, i, i + 6) = LabeledBlank(text[i + 3])
LabeledBlanks(text) == {i \in 1..Len(text) : LabeledAt(text, i)}

\* C1: when format_question returns with blank_count = N >= 2, the question
\* holds exactly N labeled blanks, labeled A, B, ... from left to right, and
\* neither a marker nor an unlabeled blank
C1_LabelsInOrder ==
    (pc = "done" /\ blank_count >= 2) =>
        /\ \E at \in {LabeledBlanks(formatted)} :
               /\ Cardinality(at) = blank_count
               /\ \A i \in at :
                      formatted[i + 3] = labels[Cardinality({j \in at : j <= i})]
        /\ count(formatted, BLANK) = 0
        /\ count(formatted, UnlabeledBlank) = 0

\* C2: blank_count equals the number of markers in the text format_blanks is
\* about to receive (after conversion and cleaning)
C2_CountIsMarkersBeforeFormat ==
    pc = "format" => blank_count = count(cleaned, BLANK)

\* C3: format_question applied to what it returned returns the same question,
\* answer and blank_count
C3_Idempotent ==
    (run = 2 /\ pc = "done") =>
        first = [question |-> formatted, answer |-> formatted_answer,
                 blank_count |-> blank_count]

\* the positions of the uppercase letters of text that a protected suffix follows
SuffixAt(text, i) ==
    \E k \in 1..Len(exclude_suffixes) : IsPrefixAt(exclude_suffixes[k], text, i)
ProtectedLetters(text) ==
    {i \in 1..Len(text) : text[i] \in Upper /\ SuffixAt(text, i + 1)}
UpperLetters(text) == {i \in 1..Len(text) : text[i] \in Upper}

\* C4: normalize_standalone_letters returns every uppercase letter that a
\* protected suffix follows as that letter, and counts no blank for it
C4_ProtectedTermsKept ==
    pc = "count" =>
        /\ Cardinality(ProtectedLetters(result))
               = Cardinality(ProtectedLetters(question_text))
        /\ count(result, BLANK)
               <= Cardinality(UpperLetters(question_text)
                              \ ProtectedLetters(question_text))

\* two entries labeled 1st and 2nd in one notation, separated by a space, a
\* comma or a newline
LabelPairs == { <<<<"A", ".">>, <<"B", ".">>>>, <<<<"1", ".">>, <<"2", ".">>>>,
                <<<<"c1">>, <<"c2">>>> }
PreLabeled ==
    {p[1] \o AnswerValue \o sep \o p[2] \o AnswerValue :
        p \in LabelPairs, sep \in {<<" ">>, <<",">>, <<"LF">>}}

\* C5: with blank_count >= 2, an answer of two pre-labeled entries comes back
\* as the two entries 'A. value' and 'B. value' joined by two full-width spaces
C5_RoundTrip ==
    (pc = "done" /\ blank_count >= 2 /\ answer_text \in PreLabeled) =>
        formatted_answer
            = SEIKAI \o join(<<Entry("A", AnswerValue), Entry("B", AnswerValue)>>)

\* the characters clean_text may remove: emphasis asterisks, white space,
\* commas and comma-class or period-class punctuation
Removable == {"*", " ", "FWSP", "TAB", "LF", ",", "TOUTEN", "FW,", "KUTEN", "FW."}
IsKept(c) == c \notin Removable
Kept(text) == SelectSeq(text, IsKept)

\* C6: every other character of clean_text's input is in its output, in the
\* same order, and clean_text adds none
C6_CleanKeepsCharacters ==
    pc = "format" => Kept(cleaned) = Kept(converted)

\* C7: with blank_count >= 2 no value of a parsed entry ends in ',' or '、'
C7_NoTrailingComma ==
    (pc = "done" /\ blank_count >= 2) =>
        \A j \in 1..Len(parts) :
            \/ parts[j].value = <<>>
            \/ parts[j].value[Len(parts[j].value)] \notin {",", "TOUTEN"}

\* the non-empty stripped lines of the answer, as the multi-line strategy sees them
IsNonEmpty(l) == l # <<>>
StrippedLines(lines) == SelectSeq([k \in 1..Len(lines) |-> strip(lines[k])], IsNonEmpty)
AnswerLines == StrippedLines(split_lines(strip(strip_seikai(strip(answer_text)))))
Unlabeled(line) ==
    /\ ReMatch(line_circled, line) = <<>>
    /\ ReMatch(line_num, line) = <<>>
    /\ ReMatch(line_letter, line) = <<>>

\* C8: in the multi-line strategy the letter given to a line without a label
\* is the label of no earlier entry
C8_UnlabeledLineGetsUnusedLetter ==
    (pc = "done" /\ strategy = "lines") =>
        \E lines \in {AnswerLines} :
            \A j \in 1..Len(parts) :
                Unlabeled(lines[j]) =>
                    \A i \in 1..(j - 1) : parts[i].label # parts[j].label

\* the positions where the pattern of the re-scan loop matches
Standalone(text) ==
    {i \in 1..(Len(text) - 2) :
        text[i] \in before_chars /\ text[i + 1] \in Upper /\ text[i + 2] \in after_chars}

\* C9: the re-scan loop is left, and the function returns; when the loop is
\* left the pattern matches nowhere; '彼はA、B、Cの方法を試した。' yields 3 markers
C9_RescanTerminatesClean ==
    /\ <>(pc = "count")
    /\ []((pc = "scan" /\ prev_result = result) => Standalone(result) = {})
    /\ []((pc = "count" /\ question_text = Example1) => count(result, BLANK) = 3)
\* a pass after the first turns a letter into a marker
C9_LaterPassConverts ==
    /\ pc = "scan"
    /\ count(prev_result, BLANK) > 0
    /\ count(result, BLANK) > count(prev_result, BLANK)

\* the answer as the strategies of lines 262-306 receive it
SingleLineAnswer == strip_seikai(strip(answer_text))
\* pattern_space matches the answer once its brackets are protected
SpaceMatchesProtected(answer) ==
    \E prot \in {protect_brackets(answer)} : FindAll(pattern_space, prot.text) # <<>>

====
